---- MODULE Spec2Model ----
(***************************************************************************)
(* Model of the eep-emu EEPROM-emulation decoders (NecEmulator, Emu_V850e2 *)
(* and Emu_RH850).  A 32-bit word is kept as its two 16-bit halves         *)
(* [hi, lo] so that every unsigned 32-bit value of the program is          *)
(* representable; byte addresses and lengths are plain integers.           *)
(***************************************************************************)
EXTENDS Integers, Sequences, FiniteSets, TLC

VARIABLES family, dfBuffer, cfBuf, tableHeaderAddr, pc, err, nBlocks,
          blockData, activeBlocks, eepData, dataTable, blockId, i, word, last,
          hist

vars == <<family, dfBuffer, cfBuf, tableHeaderAddr, pc, err, nBlocks,
          blockData, activeBlocks, eepData, dataTable, blockId, i, word, last,
          hist>>

(***************************************************************************)
(* Bounds of the explored inputs.                                          *)
(***************************************************************************)
MaxBlocks == 2

MaxErase == 2

MaxLenWords == 2

MaxCatalog == 3

(***************************************************************************)
(* Program constants.                                                      *)
(***************************************************************************)
V850_BLOCK_SIZE == 4096

RH850_BLOCK_SIZE == 2048

W(h, l) == [hi |-> h, lo |-> l]

ACTIVE_FLAG == W(21845, 21845)

REF_END_FLAG == W(65535, 65535)

ZERO_WORD == W(0, 0)

Max(a, b) == IF a > b THEN a ELSE b

Min(a, b) == IF a < b THEN a ELSE b

\* Math.ceil(x / 4) for x >= 0
CeilDiv4(x) == (x + 3) \div 4

(***************************************************************************)
(* Buffers.  A buffer is [len, cells, fill]: cells maps 4-aligned byte     *)
(* addresses to words, every other aligned cell holds the fill word.       *)
(***************************************************************************)
CellAt(buf, c) == IF c \in DOMAIN buf.cells THEN buf.cells[c] ELSE buf.fill

ByteOfWord(w, k) ==
  CASE k = 0 -> w.lo % 256
    [] k = 1 -> w.lo \div 256
    [] k = 2 -> w.hi % 256
    [] OTHER -> w.hi \div 256

ByteAt(buf, a) == ByteOfWord(CellAt(buf, a - (a % 4)), a % 4)

\* Little-endian value of the n (0..4) bytes of buf starting at byte a;
\* bytes that are missing count as 0 (undefined << k is 0 in the source).
BytesLE(buf, a, n) ==
  LET b(k) == IF k < n THEN ByteAt(buf, a + k) ELSE 0
  IN  IF n = 4 /\ a % 4 = 0 THEN CellAt(buf, a)
      ELSE W(b(2) + 256 * b(3), b(0) + 256 * b(1))

Thrown == [ok |-> FALSE, w |-> ZERO_WORD]

\* readUint32 on the view [base, base + vlen) of buf, little endian.
\* Buffer.subarray clamps its bounds and counts negative ones from the end.
readUint32(buf, base, vlen, addr) ==
  IF vlen < 4
    THEN IF 4 < addr + 4 THEN Thrown
         ELSE [ok |-> TRUE, w |-> BytesLE(buf, base, vlen)]
  ELSE IF vlen < addr + 4 THEN Thrown
  ELSE LET s == IF addr < 0 THEN Max(vlen + addr, 0) ELSE Min(addr, vlen)
           e == IF addr + 4 < 0 THEN Max(vlen + addr + 4, 0)
                ELSE Min(addr + 4, vlen)
           n == Max(e - s, 0)
       IN  [ok |-> TRUE, w |-> BytesLE(buf, base + s, n)]

\* int32ToWord, little endian: the four bytes of the word.
int32ToWord(w) == <<w.lo % 256, (w.lo \div 256) % 256, w.hi % 256, w.hi \div 256>>

RECURSIVE checkSum8bitFrom(_, _, _, _)
checkSum8bitFrom(buf, start, end, acc) ==
  IF start > end THEN acc % 256
  ELSE checkSum8bitFrom(buf, start + 1, end, acc + ByteAt(buf, start))

checkSum8bit(buf, start, end) == checkSum8bitFrom(buf, start, end, 0)

\* word >> 16 on the int32 reinterpretation of the word (sign extended).
SignedHigh16(w) == IF w.hi >= 32768 THEN w.hi - 65536 ELSE w.hi

Sub32_noBorrow(a, b) ==
  W((a.hi - b.hi + 65536) % 65536, (a.lo - b.lo + 65536) % 65536)

\* (a - b) >>> 0
Sub32(a, b) ==
  LET borrow == IF a.lo < b.lo THEN 1 ELSE 0
  IN  W((a.hi - b.hi - borrow + 131072) % 65536, (a.lo - b.lo + 65536) % 65536)

\* Integer value of a word known to fit 24 bits.
WordToInt(w) == w.hi * 65536 + w.lo

(***************************************************************************)
(* NecEmulator.getActiveBlocksOrderedList                                  *)
(***************************************************************************)
RECURSIVE InsertSorted(_, _)
InsertSorted(s, x) ==
  IF s = <<>> THEN <<x>>
  ELSE IF x < Head(s) THEN <<x>> \o s
  ELSE <<Head(s)>> \o InsertSorted(Tail(s), x)

RECURSIVE SortAsc(_)
SortAsc(s) == IF s = <<>> THEN <<>> ELSE InsertSorted(SortAsc(Tail(s)), Head(s))

SeqContains(s, x) == \E k \in 1..Len(s) : s[k] = x

\* The first loop: eraseCounts in first-seen order, blocks[c] in index order.
RECURSIVE CollectEraseCounts(_, _, _, _)
CollectEraseCounts(bd, n, k, acc) ==
  IF k >= n THEN acc
  ELSE IF ~bd[k].isValid \/ SeqContains(acc, bd[k].eraseCount)
         THEN CollectEraseCounts(bd, n, k + 1, acc)
  ELSE CollectEraseCounts(bd, n, k + 1, Append(acc, bd[k].eraseCount))

RECURSIVE CollectGroup(_, _, _, _, _)
CollectGroup(bd, n, k, c, acc) ==
  IF k >= n THEN acc
  ELSE IF bd[k].isValid /\ bd[k].eraseCount = c
         THEN CollectGroup(bd, n, k + 1, c, Append(acc, k))
  ELSE CollectGroup(bd, n, k + 1, c, acc)

RECURSIVE ConcatGroups(_, _, _)
ConcatGroups(bd, n, counts) ==
  IF counts = <<>> THEN <<>>
  ELSE SortAsc(CollectGroup(bd, n, 0, Head(counts), <<>>))
         \o ConcatGroups(bd, n, Tail(counts))

UnsortedEraseOrder(bd, n) == ConcatGroups(bd, n, CollectEraseCounts(bd, n, 0, <<>>))

getActiveBlocksOrderedList(bd, n) ==
  ConcatGroups(bd, n, SortAsc(CollectEraseCounts(bd, n, 0, <<>>)))

(***************************************************************************)
(* Block catalog (getBlocksData of both families).                         *)
(***************************************************************************)
EmptyMap == [x \in {} |-> 0]

V850_isValidBlock(buf, base) ==
  /\ readUint32(buf, base, V850_BLOCK_SIZE, 16).w = ACTIVE_FLAG
  /\ readUint32(buf, base, V850_BLOCK_SIZE, 24).w = ACTIVE_FLAG
  /\ readUint32(buf, base, V850_BLOCK_SIZE, 32).w = ACTIVE_FLAG

RH850_isValidBlock(buf, base) ==
  /\ readUint32(buf, base, RH850_BLOCK_SIZE, 4).w = ACTIVE_FLAG
  /\ readUint32(buf, base, RH850_BLOCK_SIZE, 8).w = ACTIVE_FLAG
  /\ readUint32(buf, base, RH850_BLOCK_SIZE, 12).w = ACTIVE_FLAG
  /\ checkSum8bit(buf, base + 16, base + 19) = 255
  /\ checkSum8bit(buf, base + 20, base + 23) = 255

\* blockBuffer.subarray(0x28, 0x2b) and subarray(0x10, 0x13) are 3 bytes long.
V850_eraseCount(buf, base) == WordToInt(readUint32(buf, base + 40, 3, 0).w)

V850_headerRwp(buf, base) == WordToInt(readUint32(buf, base + 48, 3, 0).w) * 2

RH850_eraseCount(buf, base) == WordToInt(readUint32(buf, base + 16, 3, 0).w)

RH850_headerRwp(buf, base) == WordToInt(readUint32(buf, base + 20, 3, 0).w)

\* rwps.forEach: blocks[rwpBlock].rwp = rwpAddr; blocks[rwpBlock] is
\* undefined for a block index outside the catalog and the store throws.
RECURSIVE AssignRwps(_, _, _, _)
AssignRwps(blocks, rwps, n, bs) ==
  IF rwps = <<>> THEN [ok |-> TRUE, blocks |-> blocks]
  ELSE LET rwpBlock == Head(rwps) \div bs
       IN  IF rwpBlock \notin 0..(n - 1) THEN [ok |-> FALSE, blocks |-> blocks]
           ELSE AssignRwps([blocks EXCEPT ![rwpBlock].rwp = Head(rwps)],
                           Tail(rwps), n, bs)

RECURSIVE V850_collectRwps_allBlocks(_, _, _)
V850_collectRwps_allBlocks(buf, n, k) ==
  IF k >= n THEN <<>>
  ELSE <<V850_headerRwp(buf, k * V850_BLOCK_SIZE)>>
       \o V850_collectRwps_allBlocks(buf, n, k + 1)

RECURSIVE V850_collectRwps(_, _, _)
V850_collectRwps(buf, n, k) ==
  IF k >= n THEN <<>>
  ELSE (IF V850_isValidBlock(buf, k * V850_BLOCK_SIZE)
          THEN <<V850_headerRwp(buf, k * V850_BLOCK_SIZE)>> ELSE <<>>)
       \o V850_collectRwps(buf, n, k + 1)

RECURSIVE RH850_collectRwps(_, _, _)
RH850_collectRwps(buf, n, k) ==
  IF k >= n THEN <<>>
  ELSE (IF RH850_isValidBlock(buf, k * RH850_BLOCK_SIZE)
          THEN <<RH850_headerRwp(buf, k * RH850_BLOCK_SIZE)>> ELSE <<>>)
       \o RH850_collectRwps(buf, n, k + 1)

V850_getBlocksData(buf, n) ==
  AssignRwps([k \in 0..(n - 1) |->
                [id |-> k,
                 isValid |-> V850_isValidBlock(buf, k * V850_BLOCK_SIZE),
                 eraseCount |-> V850_eraseCount(buf, k * V850_BLOCK_SIZE),
                 rwp |-> 0]],
             V850_collectRwps(buf, n, 0), n, V850_BLOCK_SIZE)

RH850_getBlocksData(buf, n) ==
  AssignRwps([k \in 0..(n - 1) |->
                [id |-> k,
                 isValid |-> RH850_isValidBlock(buf, k * RH850_BLOCK_SIZE),
                 eraseCount |-> RH850_eraseCount(buf, k * RH850_BLOCK_SIZE),
                 rwp |-> 0]],
             RH850_collectRwps(buf, n, 0), n, RH850_BLOCK_SIZE)

(***************************************************************************)
(* Emu_V850e2: record resolution.                                          *)
(***************************************************************************)
RECURSIVE getOverlapData_lastFour(_, _, _, _, _, _)
getOverlapData_lastFour(buf, base, fixL, startL, endData, ofs) ==
  LET r == readUint32(buf, base, V850_BLOCK_SIZE, V850_BLOCK_SIZE - 4 - ofs * 8)
      nd == Append(endData, r.w)
  IN  IF ~r.ok THEN [status |-> "range", data |-> <<>>]
      ELSE IF Len(nd) + startL < fixL
             THEN getOverlapData_lastFour(buf, base, fixL, startL, nd, ofs + 1)
      ELSE [status |-> "ok", data |-> nd]

\* getOverlapData: do { read at length - 8 - ofs * 8 } while (n + startL < fixL)
RECURSIVE getOverlapData(_, _, _, _, _, _)
getOverlapData(buf, base, fixL, startL, endData, ofs) ==
  LET r == readUint32(buf, base, V850_BLOCK_SIZE, V850_BLOCK_SIZE - 8 - ofs * 8)
      nd == Append(endData, r.w)
  IN  IF ~r.ok THEN [status |-> "range", data |-> <<>>]
      ELSE IF Len(nd) + startL < fixL
             THEN getOverlapData(buf, base, fixL, startL, nd, ofs + 1)
      ELSE [status |-> "ok", data |-> nd]

RECURSIVE V850_walkBack_noThrow(_, _, _, _, _, _, _)
V850_walkBack_noThrow(buf, widx, rwp, nextBlock, fixL, data, ofs) ==
  LET addr == (widx - ofs) * 8
  IN  IF addr = rwp /\ nextBlock # -1
        THEN LET o == getOverlapData(buf, nextBlock * V850_BLOCK_SIZE,
                                     fixL, Len(data), <<>>, 0)
             IN  [status |-> o.status, data |-> data \o o.data,
                  inBlock |-> Len(data)]
      ELSE LET r == readUint32(buf, 0, buf.len, addr)
               nd == Append(data, r.w)
           IN  IF ~r.ok THEN [status |-> "range", data |-> data, inBlock |-> Len(data)]
               ELSE IF Len(nd) < fixL
                      THEN V850_walkBack_noThrow(buf, widx, rwp, nextBlock, fixL, nd, ofs + 1)
               ELSE [status |-> "ok", data |-> nd, inBlock |-> -1]

\* The do-while of readDataEntry; nextBlock = -1 stands for undefined.
RECURSIVE V850_walkBack(_, _, _, _, _, _, _)
V850_walkBack(buf, widx, rwp, nextBlock, fixL, data, ofs) ==
  LET addr == (widx - ofs) * 8
  IN  IF addr = rwp
        THEN IF nextBlock # -1
               THEN LET o == getOverlapData(buf, nextBlock * V850_BLOCK_SIZE,
                                            fixL, Len(data), <<>>, 0)
                    IN  [status |-> o.status, data |-> data \o o.data,
                         inBlock |-> Len(data)]
             ELSE [status |-> "missing", data |-> data, inBlock |-> Len(data)]
      ELSE LET r == readUint32(buf, 0, buf.len, addr)
               nd == Append(data, r.w)
           IN  IF ~r.ok THEN [status |-> "range", data |-> data, inBlock |-> Len(data)]
               ELSE IF Len(nd) < fixL
                      THEN V850_walkBack(buf, widx, rwp, nextBlock, fixL, nd, ofs + 1)
               ELSE [status |-> "ok", data |-> nd, inBlock |-> -1]

RECURSIVE V850_checksum(_, _)
V850_checksum(cks, data) ==
  IF data = <<>> THEN cks ELSE V850_checksum(Sub32(cks, Head(data)), Tail(data))

\* Math.ceil((word & 0xffff) / 4)
V850_fixL(w) == CeilDiv4(w.lo)

\* readDataEntry: status "ok" returns data, every other status is a throw.
\* inBlock is the number of words accumulated when the walk met rwp, or -1.
V850_readDataEntry(buf, widx, id, cksRef, rwp, nextBlock) ==
  LET first == readUint32(buf, 0, buf.len, widx * 8)
  IN  IF ~first.ok
        THEN [status |-> "range", data |-> <<>>, inBlock |-> -1, fixL |-> 0]
      ELSE LET fixL == V850_fixL(first.w)
               wk == V850_walkBack(buf, widx, rwp, nextBlock, fixL, <<>>, 0)
               cks == V850_checksum(Sub32(W(65535, 65535), W(0, id)), wk.data)
           IN  IF wk.status # "ok"
                 THEN [status |-> wk.status, data |-> wk.data,
                       inBlock |-> wk.inBlock, fixL |-> fixL]
               ELSE IF cks # cksRef
                 THEN [status |-> "checksum", data |-> wk.data,
                       inBlock |-> wk.inBlock, fixL |-> fixL]
               ELSE [status |-> "ok", data |-> wk.data,
                     inBlock |-> wk.inBlock, fixL |-> fixL]

RECURSIVE WordsToBytes(_)
WordsToBytes(data) ==
  IF data = <<>> THEN <<>> ELSE int32ToWord(Head(data)) \o WordsToBytes(Tail(data))

MapPut_new(m, k, v) == [x \in DOMAIN m \cup {k} |-> IF x = k THEN v ELSE m[x]]

MapPut_keepFirst(m, k, v) == IF k \in DOMAIN m THEN m ELSE MapPut_new(m, k, v)

MapPut_keepLength(m, k, v) ==
  MapPut_new(m, k, IF k \in DOMAIN m THEN [v EXCEPT !.length4 = m[k].length4] ELSE v)

\* this.eepData[id] = value
MapPut(m, k, v) == [x \in DOMAIN m \cup {k} |-> IF x = k THEN v ELSE m[x]]

(***************************************************************************)
(* State after construction of the object, before the constructor body.    *)
(***************************************************************************)
NoLast ==
  [kind |-> "none", block |-> -1, slot |-> 0, refAddr |-> 0, id |-> -1,
   widx |-> 0, cksRef |-> ZERO_WORD, status |-> "none", data |-> <<>>,
   inBlock |-> -1, fixL |-> 0, rwp |-> 0, nextBlock |-> -1,
   before |-> EmptyMap]

NoTable == [blockSize |-> 0, prepBlocks_min |-> 0, pointer_rom |-> 0,
            pointer_ram |-> 0, entries |-> 0, eraseSuspend |-> 0]

EmptyBuf == [len |-> 0, cells |-> EmptyMap, fill |-> REF_END_FLAG]

Fresh(fam, df, cf, tha) ==
  /\ family = fam
  /\ dfBuffer = df
  /\ cfBuf = cf
  /\ tableHeaderAddr = tha
  /\ pc = "new"
  /\ err = "none"
  /\ nBlocks = 0
  /\ blockData = EmptyMap
  /\ activeBlocks = <<>>
  /\ eepData = EmptyMap
  /\ dataTable = NoTable
  /\ blockId = 0
  /\ i = 0
  /\ word = ZERO_WORD
  /\ last = NoLast
  /\ hist = <<>>

BlockSizeOf(fam) == IF fam = "A" THEN V850_BLOCK_SIZE ELSE RH850_BLOCK_SIZE

(***************************************************************************)
(* NecEmulator.constructor                                                 *)
(***************************************************************************)
GeometryRejected_nonZero(len, bs) == len % bs # 0

GeometryRejected(len, bs) == len = 0 \/ len % bs # 0

NecEmulator_constructor ==
  /\ pc = "new"
  /\ IF GeometryRejected(dfBuffer.len, BlockSizeOf(family))
       THEN /\ pc' = "failed"
            /\ err' = "RangeError:geometry"
            /\ UNCHANGED nBlocks
       ELSE /\ pc' = "super"
            /\ nBlocks' = dfBuffer.len \div BlockSizeOf(family)
            /\ UNCHANGED err
  /\ UNCHANGED <<family, dfBuffer, cfBuf, tableHeaderAddr, blockData,
                 activeBlocks, eepData, dataTable, blockId, i, word, last, hist>>

(***************************************************************************)
(* Emu_V850e2.constructor, step by step.                                   *)
(***************************************************************************)
V850_GetBlocksData ==
  /\ pc = "super"
  /\ family = "A"
  /\ LET r == V850_getBlocksData(dfBuffer, nBlocks)
     IN  IF r.ok
           THEN /\ blockData' = r.blocks
                /\ pc' = "catalog"
                /\ UNCHANGED err
           ELSE /\ pc' = "failed"
                /\ err' = "TypeError:rwp"
                /\ UNCHANGED blockData
  /\ UNCHANGED <<family, dfBuffer, cfBuf, tableHeaderAddr, nBlocks,
                 activeBlocks, eepData, dataTable, blockId, i, word, last, hist>>

OrderBlocks ==
  /\ pc = "catalog"
  /\ activeBlocks' = getActiveBlocksOrderedList(blockData, nBlocks)
  /\ blockId' = 0
  /\ pc' = IF activeBlocks' = <<>> THEN "done" ELSE "scan"
  /\ UNCHANGED <<family, dfBuffer, cfBuf, tableHeaderAddr, err, nBlocks,
                 blockData, eepData, dataTable, i, word, last, hist>>

\* pc after the walk of active block number bid (0-based) has ended.
AfterBlock(bid) == IF bid + 1 >= Len(activeBlocks) THEN "done" ELSE "scan"

\* populateBlockData up to the first evaluation of the while condition.
V850_populateBlockData_enter ==
  /\ pc = "scan"
  /\ family = "A"
  /\ LET block == activeBlocks[blockId + 1]
         first == readUint32(dfBuffer, block * V850_BLOCK_SIZE, V850_BLOCK_SIZE, 64).w
     IN  IF first = REF_END_FLAG
           THEN /\ pc' = AfterBlock(blockId)
                /\ blockId' = blockId + 1
                /\ UNCHANGED <<i, word>>
           ELSE /\ pc' = "slot"
                /\ i' = 4
                /\ word' = first
                /\ UNCHANGED blockId
  /\ UNCHANGED <<family, dfBuffer, cfBuf, tableHeaderAddr, err, nBlocks,
                 blockData, activeBlocks, eepData, dataTable, last, hist>>

\* An EepData value.  length4 is 4 * length (the RH850 table yields lengths
\* that are not whole words); dataBuf is [len, head]: head holds the bytes
\* written from offset 0, every byte after them is still 0.
V850_entry(id, widx, bid, data, refAddr) ==
  [id |-> id, widx |-> widx, widx_abs |-> widx + V850_BLOCK_SIZE * bid,
   length4 |-> 4 * Len(data), data |-> data,
   dataBuf |-> [len |-> 4 * Len(data), head |-> WordsToBytes(data)],
   addr |-> refAddr]

\* One iteration of the while loop of populateBlockData.
V850_populateBlockData_slot ==
  /\ pc = "slot"
  /\ family = "A"
  /\ LET block == activeBlocks[blockId + 1]
         base == block * V850_BLOCK_SIZE
         nextBlock == IF blockId + 1 = Len(activeBlocks) THEN -1
                      ELSE activeBlocks[blockId + 2]
         refAddr == i * 16 + base
         widx == SignedHigh16(word)
         id == word.lo
         cksRef == readUint32(dfBuffer, base, V850_BLOCK_SIZE, i * 16 + 8).w
         rwp == blockData[block].rwp
         nxt == readUint32(dfBuffer, base, V850_BLOCK_SIZE, (i + 1) * 16)
         addr == (i + 1) * 16 + base
     IN  \E r \in {V850_readDataEntry(dfBuffer, widx, id, cksRef, rwp, nextBlock)} :
         /\ eepData' = IF r.status = "ok" /\ Len(r.data) # 0
                         THEN MapPut(eepData, id,
                                     V850_entry(id, widx, blockId, r.data, refAddr))
                       ELSE eepData
         /\ last' = [kind |-> "A", block |-> block, slot |-> i,
                     refAddr |-> refAddr, id |-> id, widx |-> widx,
                     cksRef |-> cksRef, status |-> r.status, data |-> r.data,
                     inBlock |-> r.inBlock, fixL |-> r.fixL, rwp |-> rwp,
                     nextBlock |-> nextBlock, before |-> eepData]
         /\ hist' = Append(hist, [bpos |-> blockId, slot |-> i, id |-> id,
                                  status |-> r.status,
                                  entry |-> V850_entry(id, widx, blockId, r.data, refAddr)])
         /\ i' = i + 1
         /\ IF ~nxt.ok
              THEN /\ pc' = "failed"
                   /\ err' = "RangeError:read"
                   /\ UNCHANGED <<word, blockId>>
            ELSE IF (rwp # 0 /\ addr >= rwp) \/ nxt.w = REF_END_FLAG
              THEN /\ pc' = AfterBlock(blockId)
                   /\ blockId' = blockId + 1
                   /\ word' = nxt.w
                   /\ UNCHANGED err
            ELSE /\ word' = nxt.w
                 /\ UNCHANGED <<pc, err, blockId>>
  /\ UNCHANGED <<family, dfBuffer, cfBuf, tableHeaderAddr, nBlocks,
                 blockData, activeBlocks, dataTable>>

(***************************************************************************)
(* Emu_RH850: table load.                                                  *)
(***************************************************************************)
\* A word as a byte address; an address of 2^30 or more is past any buffer.
WordToAddr(w) == IF w.hi >= 16384 THEN 1073741824 ELSE w.hi * 65536 + w.lo

RH850_getDataTable(cf, tha) ==
  IF cf.len < tha + 16 THEN [ok |-> FALSE, t |-> NoTable]
  ELSE [ok |-> TRUE,
        t |-> [blockSize |-> readUint32(cf, 0, cf.len, tha).w.lo,
               prepBlocks_min |-> SignedHigh16(readUint32(cf, 0, cf.len, tha).w),
               pointer_rom |-> WordToAddr(readUint32(cf, 0, cf.len, tha + 4).w),
               pointer_ram |-> WordToAddr(readUint32(cf, 0, cf.len, tha + 8).w),
               entries |-> readUint32(cf, 0, cf.len, tha + 12).w.lo,
               eraseSuspend |-> SignedHigh16(readUint32(cf, 0, cf.len, tha + 12).w)]]

\* Word k (0-based) of the table buffer: copied from the code flash where
\* the source range lies inside it, 0 (Buffer.alloc) elsewhere.
RH850_tableWord(cf, t, k) ==
  LET a == t.pointer_rom + 4 * k
      b(j) == IF a + j < cf.len THEN ByteAt(cf, a + j) ELSE 0
  IN  W(b(2) + 256 * b(3), b(0) + 256 * b(1))

RH850_stub(id, length) ==
  [id |-> id, widx |-> 0, widx_abs |-> 0, length4 |-> length, data |-> <<>>,
   dataBuf |-> [len |-> length * 4, head |-> <<>>], addr |-> 0]

RECURSIVE RH850_loadEntries_unchecked(_, _, _, _)
RH850_loadEntries_unchecked(cf, t, k, ed) ==
  IF k >= t.entries THEN [ok |-> TRUE, err |-> "none", ed |-> ed, at |-> k]
  ELSE LET w == RH850_tableWord(cf, t, k)
           length == SignedHigh16(w)
           id == w.lo
       IN  IF length < 0
             THEN [ok |-> FALSE, err |-> "RangeError:alloc", ed |-> ed, at |-> k]
           ELSE RH850_loadEntries_unchecked(cf, t, k + 1,
                                            MapPut(ed, id, RH850_stub(id, length)))

\* The loop of populateDataInfoWTable from entry k on.  Buffer.alloc throws
\* on a negative size before the stub is stored; the length check throws
\* after it.
RECURSIVE RH850_loadEntries(_, _, _, _)
RH850_loadEntries(cf, t, k, ed) ==
  IF k >= t.entries THEN [ok |-> TRUE, err |-> "none", ed |-> ed, at |-> k]
  ELSE LET w == RH850_tableWord(cf, t, k)
           length == SignedHigh16(w)
           id == w.lo
       IN  IF length < 0
             THEN [ok |-> FALSE, err |-> "RangeError:alloc", ed |-> ed, at |-> k]
           ELSE IF length > RH850_BLOCK_SIZE
             THEN [ok |-> FALSE, err |-> "Error:table",
                   ed |-> MapPut(ed, id, RH850_stub(id, length)), at |-> k]
           ELSE RH850_loadEntries(cf, t, k + 1, MapPut(ed, id, RH850_stub(id, length)))

\* Buffer.copy throws when sourceStart is past the end of the source.
RH850_populateDataInfoWTable(cf, t) ==
  IF t.pointer_rom > cf.len
    THEN [ok |-> FALSE, err |-> "RangeError:copy", ed |-> EmptyMap, at |-> 0]
  ELSE RH850_loadEntries(cf, t, 0, EmptyMap)

(***************************************************************************)
(* Emu_RH850: descriptor slots.                                            *)
(***************************************************************************)
RECURSIVE RH850_readWords(_, _, _, _, _, _)
RH850_readWords(buf, base, widx, nWord, j, acc) ==
  IF j >= nWord THEN [ok |-> TRUE, data |-> acc]
  ELSE LET r == readUint32(buf, base, RH850_BLOCK_SIZE, widx - j * 4)
       IN  IF ~r.ok THEN [ok |-> FALSE, data |-> acc]
           ELSE RH850_readWords(buf, base, widx, nWord, j + 1, Append(acc, r.w))

\* The first 4 * n bytes that fit in a buffer of length len.
HeadBytes(data, len) ==
  LET bytes == WordsToBytes(data)
  IN  IF Len(bytes) <= len THEN bytes ELSE SubSeq(bytes, 1, len)

RH850_readDataEntry_anyId(buf, blk, refAddr, ed) ==
  LET base == blk * RH850_BLOCK_SIZE
      c1 == readUint32(buf, base, RH850_BLOCK_SIZE, refAddr - 4)
      c2 == readUint32(buf, base, RH850_BLOCK_SIZE, refAddr - 8)
      c3 == readUint32(buf, base, RH850_BLOCK_SIZE, refAddr - 12)
      rw == readUint32(buf, base, RH850_BLOCK_SIZE, refAddr)
      widx == SignedHigh16(rw.w)
      id == rw.w.lo
      none == [status |-> "skip", ed |-> ed, id |-> id, widx |-> widx,
               guards |-> FALSE, read |-> <<>>]
  IN  IF ~(c1.ok /\ c2.ok /\ c3.ok /\ rw.ok) THEN [none EXCEPT !.status = "range"]
      ELSE IF c1.w # ACTIVE_FLAG \/ c2.w # ACTIVE_FLAG \/ c3.w # ACTIVE_FLAG
              \/ widx >= RH850_BLOCK_SIZE
        THEN none
      ELSE LET entry == IF id \in DOMAIN ed THEN ed[id] ELSE RH850_stub(id, 4)
               rd == RH850_readWords(buf, base, widx, CeilDiv4(entry.length4), 0, <<>>)
               data == entry.data \o rd.data
               ne == [entry EXCEPT !.data = data,
                                   !.dataBuf.head = HeadBytes(data, entry.dataBuf.len),
                                   !.widx = widx,
                                   !.widx_abs = widx + RH850_BLOCK_SIZE * blk,
                                   !.addr = refAddr + RH850_BLOCK_SIZE * blk]
           IN  IF ~rd.ok
                 THEN [status |-> "range", ed |-> MapPut(ed, id, [entry EXCEPT !.data = data]),
                       id |-> id, widx |-> widx, guards |-> TRUE, read |-> rd.data]
               ELSE [status |-> "ok", ed |-> MapPut(ed, id, ne), id |-> id,
                     widx |-> widx, guards |-> TRUE, read |-> rd.data]

\* readDataEntry(block, refAddr) on the record map ed.  status "range" is a
\* RangeError thrown by readUint32, "skip" is the undefined result, "ok"
\* returns the entry of ed, which the call has already modified in place.
RH850_readDataEntry(buf, blk, refAddr, ed) ==
  LET base == blk * RH850_BLOCK_SIZE
      c1 == readUint32(buf, base, RH850_BLOCK_SIZE, refAddr - 4)
      c2 == readUint32(buf, base, RH850_BLOCK_SIZE, refAddr - 8)
      c3 == readUint32(buf, base, RH850_BLOCK_SIZE, refAddr - 12)
      rw == readUint32(buf, base, RH850_BLOCK_SIZE, refAddr)
      widx == SignedHigh16(rw.w)
      id == rw.w.lo
      none == [status |-> "skip", ed |-> ed, id |-> id, widx |-> widx,
               guards |-> FALSE, read |-> <<>>]
  IN  IF ~(c1.ok /\ c2.ok /\ c3.ok /\ rw.ok) THEN [none EXCEPT !.status = "range"]
      ELSE IF c1.w # ACTIVE_FLAG \/ c2.w # ACTIVE_FLAG \/ c3.w # ACTIVE_FLAG
              \/ widx >= RH850_BLOCK_SIZE
        THEN none
      ELSE IF id \notin DOMAIN ed \/ ed[id].length4 > 4 * RH850_BLOCK_SIZE
        THEN [none EXCEPT !.guards = TRUE]
      ELSE LET entry == ed[id]
               rd == RH850_readWords(buf, base, widx, CeilDiv4(entry.length4), 0, <<>>)
               data == entry.data \o rd.data
               ne == [entry EXCEPT !.data = data,
                                   !.dataBuf.head = HeadBytes(data, entry.dataBuf.len),
                                   !.widx = widx,
                                   !.widx_abs = widx + RH850_BLOCK_SIZE * blk,
                                   !.addr = refAddr + RH850_BLOCK_SIZE * blk]
           IN  IF ~rd.ok
                 THEN [status |-> "range", ed |-> [ed EXCEPT ![id].data = data],
                       id |-> id, widx |-> widx, guards |-> TRUE, read |-> rd.data]
               ELSE [status |-> "ok", ed |-> [ed EXCEPT ![id] = ne], id |-> id,
                     widx |-> widx, guards |-> TRUE, read |-> rd.data]

\* One pass of the while loop of findActiveRwp at probe address rwp; st is
\* [ok, stop, rwp_hypo, dwp, ed], stop once the loop condition has failed.
RH850_probeResult(st, rwp, r) ==
  LET hit == r.status = "ok" /\ r.widx = st.dwp
  IN  IF r.status = "range" THEN [st EXCEPT !.ok = FALSE, !.ed = r.ed]
      ELSE [ok |-> TRUE, stop |-> FALSE,
            rwp_hypo |-> IF hit THEN rwp ELSE st.rwp_hypo,
            dwp |-> IF hit THEN st.dwp - r.ed[r.id].length4 ELSE st.dwp,
            ed |-> r.ed]

RH850_probeStep(buf, blk, st, rwp) ==
  IF ~st.ok \/ st.stop THEN st
  ELSE IF rwp >= st.dwp THEN [st EXCEPT !.stop = TRUE]
  ELSE CHOOSE res \in {RH850_probeResult(st, rwp, r) :
                         r \in {RH850_readDataEntry(buf, blk, rwp - 4, st.ed)}} : TRUE

\* The passes at rwp = 0x28 + 0x10 * k for k = lo..hi, in ascending order.
RECURSIVE RH850_probeRange(_, _, _, _, _)
RH850_probeRange(buf, blk, st, lo, hi) ==
  IF st.stop \/ ~st.ok THEN st
  ELSE IF lo = hi THEN RH850_probeStep(buf, blk, st, 40 + 16 * lo)
  ELSE LET mid == (lo + hi) \div 2
       IN  CHOOSE res \in {RH850_probeRange(buf, blk, half, mid + 1, hi) :
                             half \in {RH850_probeRange(buf, blk, st, lo, mid)}} : TRUE

\* findActiveRwp: rwp starts at 0x28 and dwp at 0x7f8, so the loop makes at
\* most (0x7f8 - 0x28) / 0x10 = 125 passes.
RH850_findActiveRwp(buf, blk, ed) ==
  LET st == RH850_probeRange(buf, blk,
                             [ok |-> TRUE, stop |-> FALSE, rwp_hypo |-> 40,
                              dwp |-> 2040, ed |-> ed], 0, 124)
  IN  [ok |-> st.ok, rwp |-> st.rwp_hypo, ed |-> st.ed]

(***************************************************************************)
(* Emu_RH850.constructor, step by step.                                    *)
(***************************************************************************)
RH850_GetDataTable ==
  /\ pc = "super"
  /\ family = "B"
  /\ LET r == RH850_getDataTable(cfBuf, tableHeaderAddr)
     IN  IF r.ok
           THEN /\ dataTable' = r.t
                /\ pc' = "header"
                /\ UNCHANGED err
           ELSE /\ pc' = "failed"
                /\ err' = "RangeError:header"
                /\ UNCHANGED dataTable
  /\ UNCHANGED <<family, dfBuffer, cfBuf, tableHeaderAddr, nBlocks, blockData,
                 activeBlocks, eepData, blockId, i, word, last, hist>>

RH850_PopulateDataInfoWTable ==
  /\ pc = "header"
  /\ LET r == RH850_populateDataInfoWTable(cfBuf, dataTable)
     IN  /\ eepData' = r.ed
         /\ IF r.ok
              THEN /\ pc' = "table"
                   /\ UNCHANGED err
              ELSE /\ pc' = "failed"
                   /\ err' = r.err
  /\ UNCHANGED <<family, dfBuffer, cfBuf, tableHeaderAddr, nBlocks, blockData,
                 activeBlocks, dataTable, blockId, i, word, last, hist>>

RH850_GetBlocksData ==
  /\ pc = "table"
  /\ LET r == RH850_getBlocksData(dfBuffer, nBlocks)
     IN  IF r.ok
           THEN /\ blockData' = r.blocks
                /\ pc' = "catalog"
                /\ UNCHANGED err
           ELSE /\ pc' = "failed"
                /\ err' = "TypeError:rwp"
                /\ UNCHANGED blockData
  /\ UNCHANGED <<family, dfBuffer, cfBuf, tableHeaderAddr, nBlocks,
                 activeBlocks, eepData, dataTable, blockId, i, word, last, hist>>

\* populateBlockData up to the first test of the for loop, findActiveRwp
\* included when the block has no recorded rwp.
RH850_populateBlockData_enter ==
  /\ pc = "scan"
  /\ family = "B"
  /\ LET blockNum == activeBlocks[blockId + 1]
     IN  \E probe \in {IF blockData[blockNum].rwp = 0
                          THEN RH850_findActiveRwp(dfBuffer, blockNum, eepData)
                        ELSE [ok |-> TRUE, rwp |-> blockData[blockNum].rwp,
                              ed |-> eepData]} :
         /\ eepData' = probe.ed
         /\ last' = [NoLast EXCEPT !.kind = "probe", !.block = blockNum,
                                   !.rwp = blockData[blockNum].rwp,
                                   !.before = eepData]
         /\ IF ~probe.ok
              THEN /\ pc' = "failed"
                   /\ err' = "RangeError:read"
                   /\ UNCHANGED <<blockData, blockId, i>>
            ELSE /\ blockData' = [blockData EXCEPT ![blockNum].rwp = probe.rwp]
                 /\ i' = probe.rwp - 4
                 /\ UNCHANGED err
                 /\ IF probe.rwp - 4 > 32
                      THEN /\ pc' = "slot"
                           /\ UNCHANGED blockId
                      ELSE /\ pc' = AfterBlock(blockId)
                           /\ blockId' = blockId + 1
  /\ UNCHANGED <<family, dfBuffer, cfBuf, tableHeaderAddr, nBlocks,
                 activeBlocks, dataTable, word, hist>>

\* One iteration of the for loop of populateBlockData.
RH850_populateBlockData_slot ==
  /\ pc = "slot"
  /\ family = "B"
  /\ LET blockNum == activeBlocks[blockId + 1]
     IN  \E r \in {RH850_readDataEntry(dfBuffer, blockNum, i, eepData)} :
         /\ eepData' = r.ed
         /\ last' = [NoLast EXCEPT !.kind = "B", !.block = blockNum, !.slot = i,
                                   !.refAddr = i + RH850_BLOCK_SIZE * blockNum,
                                   !.id = r.id, !.widx = r.widx,
                                   !.status = r.status, !.data = r.read,
                                   !.rwp = blockData[blockNum].rwp,
                                   !.before = eepData]
         /\ hist' = Append(hist, [bpos |-> blockId, slot |-> i, id |-> r.id,
                                  status |-> r.status,
                                  entry |-> IF r.status = "ok" THEN r.ed[r.id]
                                            ELSE RH850_stub(r.id, 0)])
         /\ IF r.status = "range"
              THEN /\ pc' = "failed"
                   /\ err' = "RangeError:read"
                   /\ UNCHANGED <<i, blockId>>
            ELSE /\ i' = i - 16
                 /\ UNCHANGED err
                 /\ IF i - 16 > 32
                      THEN UNCHANGED <<pc, blockId>>
                      ELSE /\ pc' = AfterBlock(blockId)
                           /\ blockId' = blockId + 1
  /\ UNCHANGED <<family, dfBuffer, cfBuf, tableHeaderAddr, nBlocks, blockData,
                 activeBlocks, dataTable, word>>

(***************************************************************************)
(* Input images.  An image is written the way the flash library lays a     *)
(* block out: header, reference slots growing up from 0x40, record words   *)
(* growing down from the end of the block; unwritten flash reads 0xFF.     *)
(***************************************************************************)
CellsOf(pairs) ==
  [a \in {p[1] : p \in pairs} |-> (CHOOSE p \in pairs : p[1] = a)[2]]

\* 0xFFFFFFFF - id - sum(words) modulo 2^32, from the sums of the halves.
RECURSIVE SumLo(_)
SumLo(ws) == IF ws = <<>> THEN 0 ELSE Head(ws).lo + SumLo(Tail(ws))

RECURSIVE SumHi(_)
SumHi(ws) == IF ws = <<>> THEN 0 ELSE Head(ws).hi + SumHi(Tail(ws))

ClosedChecksum(id, ws) ==
  LET lo == id + SumLo(ws)
      hi == SumHi(ws) + (lo \div 65536)
  IN  W(65535 - (hi % 65536), 65535 - (lo % 65536))

LenChoices == {0, 3, 4 * MaxLenWords}

IdChoices == {1, 2}

\* Record words at the end of block b, first word (carrying the length) last.
V850_EndCell(b, j, L) ==
  IF j = 0 THEN W(4660 + b, L) ELSE W(40000 + 100 * b + j, 65535 - j)

V850_OvlCell(L) == W(66, L + 4)

V850_LowCell(j, L) == IF j = 0 THEN W(7, L) ELSE W(9, 9)

\* rwp of a block that holds two reference slots: 0x40 + 2 * 0x10.
V850_OvlRwp == 64 + 2 * 16

\* widx of a slot target; the record's first word is at byte widx * 8.
\* "neg" is the word index -1 (high half 0xFFFF), "past" a word index
\* beyond every image.
V850_TargetWidx(b, tgt) ==
  CASE tgt = "end" -> ((b + 1) * V850_BLOCK_SIZE - 8) \div 8
    [] tgt = "ovl" -> (V850_OvlRwp + 8) \div 8
    [] tgt = "neg" -> -1
    [] tgt = "past" -> 28672
    [] OTHER -> 1

\* The words the writer of the slot summed into its checksum: the first
\* cnt words of the record, an overlapping record continuing at the end of
\* block 1, the record of word index -1 being the one at the end of block 0.
V850_WriterWords(b, tgt, cnt, L) ==
  CASE tgt \in {"end", "neg"} -> [j \in 1..cnt |-> V850_EndCell(b, j - 1, L)]
    [] tgt = "ovl" -> [j \in 1..cnt |-> IF j = 1 THEN V850_OvlCell(L)
                                         ELSE V850_EndCell(1, j - 2, L)]
    [] OTHER -> [j \in 1..cnt |-> V850_LowCell(j - 1, L)]

V850_WriterCount(tgt, extra, L) ==
  CeilDiv4(IF tgt = "ovl" THEN L + 4 ELSE L) + extra

\* Slot k of block b: which record it points to, its id, and how many
\* words more than ceil(L / 4) its writer summed into the checksum.
V850_SlotChoices(b, k) ==
  [tgt : IF b # 0 THEN {"end"}
         ELSE IF k = 1 THEN {"end", "ovl", "low", "neg", "past"}
         ELSE {"end", "ovl"},
   id : IF k = 1 /\ b = 0 THEN {1} ELSE IdChoices,
   extra : IF b = 0 THEN {0, 1} ELSE {0}]

V850_SlotSeqs(b) ==
  {<<>>} \cup {<<s>> : s \in V850_SlotChoices(b, 1)}
  \cup (IF b = 0 THEN {<<s, t>> : s \in V850_SlotChoices(b, 1),
                                   t \in V850_SlotChoices(b, 2)}
        ELSE {})

V850_SlotCells(b, k, sl, L) ==
  LET at == b * V850_BLOCK_SIZE + 64 + 16 * (k - 1)
      cnt == V850_WriterCount(sl.tgt, sl.extra, L)
      wid == V850_TargetWidx(b, sl.tgt)
  IN  {<<at, W(wid % 65536, sl.id)>>,
       <<at + 8, ClosedChecksum(sl.id, V850_WriterWords(b, sl.tgt, cnt, L))>>}

V850_BlockCells(b, h, L) ==
  LET base == b * V850_BLOCK_SIZE
  IN  {<<base + 16, IF h.valid THEN ACTIVE_FLAG ELSE ZERO_WORD>>,
       <<base + 24, ACTIVE_FLAG>>, <<base + 32, ACTIVE_FLAG>>,
       <<base + 40, W(0, h.erase)>>,
       <<base + 48, W(0, h.rwpField)>>}
      \cup {<<base + V850_BLOCK_SIZE - 8 - 8 * j, V850_EndCell(b, j, L)>> :
              j \in 0..(MaxLenWords + 1)}
      \cup (IF b = 0 THEN {<<V850_OvlRwp + 8, V850_OvlCell(L)>>,
                           <<8, V850_LowCell(0, L)>>, <<0, V850_LowCell(1, L)>>}
            ELSE {})
      \cup UNION {V850_SlotCells(b, k, h.slots[k], L) : k \in 1..Len(h.slots)}

SeqsUpTo(S, n) == UNION {[1..m -> S] : m \in 0..n}

\* Header and slots of block b.  Block 0 has erase counter 2 and the later
\* blocks range around it; the header of block 1, active or not, may record
\* the rwp of block 0 (past its slots, or at its first slot 0x40); an
\* inactive block holds no slots, and only blocks 0 and 1 hold records.
V850_BlockChoices(b) ==
  {h \in [valid : BOOLEAN,
          erase : IF b = 0 THEN {2} ELSE 1..(MaxErase + 1),
          rwpField : IF b = 1 THEN {0, V850_OvlRwp \div 2, 64 \div 2} ELSE {0},
          slots : IF b <= 1 THEN V850_SlotSeqs(b) ELSE {<<>>}] :
     /\ ~h.valid => (h.erase = 2 /\ h.slots = <<>>)
     /\ h.rwpField = 64 \div 2 => (h.valid /\ h.erase = 1 /\ h.slots = <<>>)}

V850_Image(hs, L) ==
  [len |-> Len(hs) * V850_BLOCK_SIZE,
   cells |-> CellsOf(UNION {V850_BlockCells(b - 1, hs[b], L) : b \in 1..Len(hs)}),
   fill |-> REF_END_FLAG]

RECURSIVE V850_Layouts(_)
V850_Layouts(n) ==
  IF n = 0 THEN {<<>>}
  ELSE {Append(hs, h) : hs \in V850_Layouts(n - 1), h \in V850_BlockChoices(n - 1)}

V850_LayoutsUpTo(n) == UNION {V850_Layouts(m) : m \in 1..n}

InitA ==
  \E hs \in V850_LayoutsUpTo(MaxBlocks), L \in LenChoices :
    Fresh("A", V850_Image(hs, L), EmptyBuf, 0)

NextA ==
  \/ NecEmulator_constructor
  \/ V850_GetBlocksData
  \/ OrderBlocks
  \/ V850_populateBlockData_enter
  \/ V850_populateBlockData_slot

SpecA == InitA /\ [][NextA]_vars

(***************************************************************************)
(* RH850 inputs: code flash with the descriptor and the ID-L table, and    *)
(* data flash blocks with descriptor slots growing up from 0x18 and data   *)
(* words growing down from 0x7f8.                                          *)
(***************************************************************************)
\* A 3-byte header field followed by the byte that makes the sum 0xFF.
RH850_HeaderWord(v) ==
  LET b0 == v % 256
      b1 == (v \div 256) % 256
      b2 == (v \div 65536) % 256
      c == (1023 - (b0 + b1 + b2)) % 256
  IN  W(b2 + 256 * c, b0 + 256 * b1)

\* Code flash layout of the inputs: descriptor at 0x10, table at 0x40.
RH850_CodeLayout == [header |-> 16, table |-> 64, len |-> 256]

RH850_CodeFlash(tab) ==
  [len |-> RH850_CodeLayout.len,
   cells |-> CellsOf({<<RH850_CodeLayout.header, W(1, 1)>>,
                      <<RH850_CodeLayout.header + 4, W(0, RH850_CodeLayout.table)>>,
                      <<RH850_CodeLayout.header + 8, W(65246, 0)>>,
                      <<RH850_CodeLayout.header + 12, W(2, Len(tab))>>}
                     \cup {<<RH850_CodeLayout.table + 4 * (k - 1), W(tab[k].enc, tab[k].id)>> :
                             k \in 1..Len(tab)}),
   fill |-> ZERO_WORD]

\* Encoded length the table declares for id (4 for an id it does not hold).
RH850_EncOf(tab, id) ==
  IF \E k \in 1..Len(tab) : tab[k].id = id
    THEN tab[CHOOSE k \in 1..Len(tab) : tab[k].id = id].enc
  ELSE 4

\* Block offset of the first data word of the record of slot k: the data
\* write pointer after the records of the slots before it.
RECURSIVE RH850_SlotWidx(_, _, _)
RH850_SlotWidx(tab, slots, k) ==
  IF k = 1 THEN 2040
  ELSE RH850_SlotWidx(tab, slots, k - 1) - RH850_EncOf(tab, slots[k - 1].id)

RH850_DataCell(b, off) == W(b + 1, off)

\* High half of the reference word of slot k: the data write pointer, or a
\* wordIndex at the block size (0x800), or one with the top bit set (0xFFF8).
RH850_SlotRefWidx(tab, slots, k) ==
  CASE slots[k].widx = "dwp" -> RH850_SlotWidx(tab, slots, k)
    [] slots[k].widx = "out" -> RH850_BLOCK_SIZE
    [] OTHER -> 65536 - 8

RH850_BlockCells(b, h, tab) ==
  LET base == b * RH850_BLOCK_SIZE
  IN  {<<base + 4, IF h.valid THEN ACTIVE_FLAG ELSE ZERO_WORD>>,
       <<base + 8, ACTIVE_FLAG>>, <<base + 12, ACTIVE_FLAG>>,
       <<base + 16, RH850_HeaderWord(h.erase)>>,
       <<base + 20, RH850_HeaderWord(h.rwpField)>>}
      \cup {<<base + 2040 - 4 * j, RH850_DataCell(b, 2040 - 4 * j)>> :
              j \in 0..(3 * MaxLenWords)}
      \cup UNION {LET ref == base + 36 + 16 * (k - 1)
                  IN  {<<ref, W(RH850_SlotRefWidx(tab, h.slots, k), h.slots[k].id)>>,
                       <<ref - 4, IF h.slots[k].guard THEN ACTIVE_FLAG ELSE ZERO_WORD>>,
                       <<ref - 8, ACTIVE_FLAG>>, <<ref - 12, ACTIVE_FLAG>>} :
                    k \in 1..Len(h.slots)}

RH850_SlotChoices(b) ==
  {sl \in [id : {16, 17}, guard : IF b = 0 THEN BOOLEAN ELSE {TRUE},
           widx : IF b = 0 THEN {"dwp", "out", "neg"} ELSE {"dwp"}] :
     sl.widx # "dwp" => (sl.id = 16 /\ sl.guard)}

\* rwp of a block that holds two descriptor slots: 0x28 + 0x10.
RH850_RecordedRwp == 40 + 16

\* The header of block 1 may record the rwp of block 0, and the header of an
\* empty block 0 the rwp of a block 1 that holds one descriptor slot
\* (image-absolute 0x800 + 0x28).  Only the first slot of a block may carry
\* a wordIndex that is not the data write pointer.
RH850_BlockChoices(b) ==
  {h \in [valid : BOOLEAN,
          erase : IF b = 0 THEN {2} ELSE IF b = 1 THEN {1, MaxErase + 1} ELSE {1},
          rwpField : IF b = 1 THEN {0, RH850_RecordedRwp}
                     ELSE IF b = 0 THEN {0, RH850_BLOCK_SIZE + 40}
                     ELSE {0},
          slots : SeqsUpTo(RH850_SlotChoices(b),
                           IF b = 0 THEN 2 ELSE IF b = 1 THEN 1 ELSE 0)] :
     /\ ~h.valid => (h.erase = 2 /\ h.slots = <<>>)
     /\ (b = 0 /\ h.rwpField # 0) => (h.valid /\ h.slots = <<>>)
     /\ \A k \in 2..Len(h.slots) : h.slots[k].widx = "dwp"}

RECURSIVE RH850_Layouts(_)
RH850_Layouts(n) ==
  IF n = 0 THEN {<<>>}
  ELSE {Append(hs, h) : hs \in RH850_Layouts(n - 1), h \in RH850_BlockChoices(n - 1)}

RH850_LayoutsUpTo(n) == UNION {RH850_Layouts(m) : m \in 1..n}

RH850_Image(hs, tab) ==
  [len |-> Len(hs) * RH850_BLOCK_SIZE,
   cells |-> CellsOf(UNION {RH850_BlockCells(b - 1, hs[b], tab) : b \in 1..Len(hs)}),
   fill |-> REF_END_FLAG]

\* Tables every entry of which is within the block size.
RH850_GoodTables ==
  {<<[id |-> 16, enc |-> 4]>>, <<[id |-> 16, enc |-> 4 * MaxLenWords]>>,
   <<[id |-> 16, enc |-> 4 * MaxLenWords], [id |-> 17, enc |-> 4]>>}

\* Tables with lengths around the block size and around the sign bit.
RH850_EdgeEncs == {8, 2048, 2049, 32767, 32768, 65535}

RH850_EdgeTables ==
  {<<[id |-> 16, enc |-> e]>> : e \in RH850_EdgeEncs}
  \cup {<<[id |-> 16, enc |-> e], [id |-> 17, enc |-> f]>> :
          e \in RH850_EdgeEncs, f \in RH850_EdgeEncs}

RH850_PlainLayout == <<[valid |-> TRUE, erase |-> 2, rwpField |-> 0, slots |-> <<>>]>>

InitB ==
  \/ \E tab \in RH850_GoodTables :
       \E hs \in RH850_LayoutsUpTo(MaxBlocks) :
         Fresh("B", RH850_Image(hs, tab), RH850_CodeFlash(tab), RH850_CodeLayout.header)
  \/ \E tab \in RH850_EdgeTables :
       \E tha \in {RH850_CodeLayout.header, RH850_CodeLayout.len - 12} :
         Fresh("B", RH850_Image(RH850_PlainLayout, tab), RH850_CodeFlash(tab), tha)

NextB ==
  \/ NecEmulator_constructor
  \/ RH850_GetDataTable
  \/ RH850_PopulateDataInfoWTable
  \/ RH850_GetBlocksData
  \/ OrderBlocks
  \/ RH850_populateBlockData_enter
  \/ RH850_populateBlockData_slot

SpecB == InitB /\ [][NextB]_vars

(***************************************************************************)
(* Geometry: images of every length around the multiples of the block     *)
(* size, unwritten (0xFF) or zeroed, for both decoders.                    *)
(***************************************************************************)
GeomDeltas(bs) == {0, 1, 2, 3, 4, 8, bs \div 2, bs - 4, bs - 1}

GeomImages(bs) ==
  {[len |-> k * bs + d, cells |-> EmptyMap, fill |-> f] :
     k \in 0..MaxBlocks, d \in GeomDeltas(bs), f \in {REF_END_FLAG, ZERO_WORD}}

InitGeom ==
  \/ \E df \in GeomImages(V850_BLOCK_SIZE) : Fresh("A", df, EmptyBuf, 0)
  \/ \E df \in GeomImages(RH850_BLOCK_SIZE) :
       Fresh("B", df, RH850_CodeFlash(<<[id |-> 16, enc |-> 8]>>), RH850_CodeLayout.header)

NextGeom ==
  \/ NecEmulator_constructor
  \/ V850_GetBlocksData
  \/ RH850_GetDataTable
  \/ RH850_PopulateDataInfoWTable
  \/ RH850_GetBlocksData
  \/ OrderBlocks

SpecGeom == InitGeom /\ [][NextGeom]_vars

(***************************************************************************)
(* Erase order: every block catalog of up to MaxCatalog blocks.            *)
(***************************************************************************)
Catalogs(maxN) ==
  UNION {{[k \in 0..(n - 1) |-> [id |-> k, isValid |-> f[k].isValid,
                                  eraseCount |-> f[k].eraseCount, rwp |-> 0]] :
            f \in [0..(n - 1) -> [isValid : BOOLEAN, eraseCount : 0..MaxErase]]} :
           n \in 1..maxN}

InitOrder ==
  \E bd \in Catalogs(MaxCatalog) :
    /\ family = "A"
    /\ dfBuffer = [EmptyBuf EXCEPT !.len = Cardinality(DOMAIN bd) * V850_BLOCK_SIZE]
    /\ cfBuf = EmptyBuf
    /\ tableHeaderAddr = 0
    /\ pc = "catalog"
    /\ err = "none"
    /\ nBlocks = Cardinality(DOMAIN bd)
    /\ blockData = bd
    /\ activeBlocks = <<>>
    /\ eepData = EmptyMap
    /\ dataTable = NoTable
    /\ blockId = 0
    /\ i = 0
    /\ word = ZERO_WORD
    /\ last = NoLast
    /\ hist = <<>>

NextOrder == OrderBlocks

SpecOrder == InitOrder /\ [][NextOrder]_vars

(***************************************************************************)
(* Block headers of decoder A: every block is active or not, and its erase *)
(* counter and rwp fields are words with or without a fourth byte; the rwp *)
(* field may also be erased (0xFFFFFFFF).                                  *)
(***************************************************************************)
V850_HeaderChoices ==
  [valid : BOOLEAN,
   erase : {W(0, 1), W(0, 2), W(256, 1)},
   rwpWord : {W(0, 0), W(0, V850_OvlRwp \div 2), W(256, V850_OvlRwp \div 2),
              REF_END_FLAG}]

V850_HeaderCells(b, h) ==
  LET base == b * V850_BLOCK_SIZE
  IN  {<<base + 16, IF h.valid THEN ACTIVE_FLAG ELSE ZERO_WORD>>,
       <<base + 24, ACTIVE_FLAG>>, <<base + 32, ACTIVE_FLAG>>,
       <<base + 40, h.erase>>, <<base + 48, h.rwpWord>>}

V850_HeaderImages(maxN) ==
  UNION {{[len |-> n * V850_BLOCK_SIZE,
           cells |-> CellsOf(UNION {V850_HeaderCells(b, hs[b]) : b \in 0..(n - 1)}),
           fill |-> REF_END_FLAG] :
            hs \in [0..(n - 1) -> V850_HeaderChoices]} :
           n \in 1..maxN}

InitHeader == \E df \in V850_HeaderImages(MaxBlocks) : Fresh("A", df, EmptyBuf, 0)

NextHeader ==
  \/ NecEmulator_constructor
  \/ V850_GetBlocksData
  \/ OrderBlocks

SpecHeader == InitHeader /\ [][NextHeader]_vars

(***************************************************************************)
(* Reference walk of decoder A over blocks that were written all over:     *)
(* every word outside the header is the same word, and the reference table *)
(* either has an end marker at slot 0x80 or has none.                      *)
(***************************************************************************)
V850_FullBlockCells(b, marker) ==
  LET base == b * V850_BLOCK_SIZE
  IN  {<<base + 16, ACTIVE_FLAG>>, <<base + 24, ACTIVE_FLAG>>,
       <<base + 32, ACTIVE_FLAG>>, <<base + 40, W(0, 2)>>,
       <<base + 48, ZERO_WORD>>}
      \cup (IF marker THEN {<<base + 128, REF_END_FLAG>>} ELSE {})

V850_FullImages(maxN) ==
  UNION {{[len |-> n * V850_BLOCK_SIZE,
           cells |-> CellsOf(UNION {V850_FullBlockCells(b, ms[b]) : b \in 0..(n - 1)}),
           fill |-> f] :
            ms \in [0..(n - 1) -> BOOLEAN], f \in {ZERO_WORD, W(1, 1)}} :
           n \in 1..maxN}

InitWalk == \E df \in V850_FullImages(MaxBlocks) : Fresh("A", df, EmptyBuf, 0)

NextWalk ==
  \/ NecEmulator_constructor
  \/ V850_GetBlocksData
  \/ OrderBlocks
  \/ V850_populateBlockData_enter
  \/ V850_populateBlockData_slot

SpecWalk == InitWalk /\ [][NextWalk]_vars

Init == InitA \/ InitB

Next == NextA \/ NextB

Spec == Init /\ [][Next]_vars

(***************************************************************************)
(* Properties.                                                             *)
(***************************************************************************)

\* C1: for both decoders, construction on an image whose length is 0 or not
\* a multiple of the block size fails with the geometry RangeError before
\* any block is catalogued or any record decoded; for a positive multiple
\* the number of blocks times the block size is the image length.
C1_GeometryChecked ==
  LET bs == BlockSizeOf(family)
      positiveMultiple == \E k \in 1..(MaxBlocks + 1) : dfBuffer.len = k * bs
  IN  pc # "new" =>
        IF positiveMultiple
          THEN /\ err # "RangeError:geometry"
               /\ nBlocks * bs = dfBuffer.len
               /\ DOMAIN blockData \in {{}, 0..(nBlocks - 1)}
        ELSE /\ pc = "failed"
             /\ err = "RangeError:geometry"
             /\ blockData = EmptyMap
             /\ activeBlocks = <<>>
             /\ eepData = EmptyMap

C1_Witness ==
  /\ pc = "failed"
  /\ family = "B"
  /\ err = "RangeError:geometry"
  /\ dfBuffer.len > RH850_BLOCK_SIZE

\* C2: getActiveBlocksOrderedList returns every valid block index exactly
\* once and no invalid one, ordered by erase counter ascending and, for
\* equal counters, by block index ascending.
C2_EraseOrder ==
  pc \in {"scan", "done"} =>
    /\ \A k \in DOMAIN blockData :
         Cardinality({p \in 1..Len(activeBlocks) : activeBlocks[p] = k})
           = IF blockData[k].isValid THEN 1 ELSE 0
    /\ \A p \in 1..Len(activeBlocks) : activeBlocks[p] \in DOMAIN blockData
    /\ \A p, q \in 1..Len(activeBlocks) :
         p < q =>
           LET a == blockData[activeBlocks[p]]
               b == blockData[activeBlocks[q]]
           IN  \/ a.eraseCount < b.eraseCount
               \/ (a.eraseCount = b.eraseCount /\ a.id < b.id)

\* Three valid blocks: the highest index has the lowest counter and comes
\* first, the two others tie and keep index order.
C2_Witness ==
  /\ pc = "scan"
  /\ activeBlocks = <<2, 0, 1>>
  /\ blockData[0].eraseCount = blockData[1].eraseCount

\* The reference walk after the slot recorded in last: unless that slot was
\* the last of its block, was followed by the end marker or met the rwp
\* bound, the next slot of the same block is the one being processed.
V850_WalkContinues ==
  LET off == (last.slot + 1) * 16
      a == last.block * V850_BLOCK_SIZE + off
  IN  /\ pc = "failed" => (err = "RangeError:read" /\ off + 4 > V850_BLOCK_SIZE)
      /\ (/\ off + 4 <= V850_BLOCK_SIZE
          /\ CellAt(dfBuffer, a) # REF_END_FLAG
          /\ ~(last.rwp # 0 /\ a >= last.rwp))
         => /\ pc = "slot"
            /\ i = last.slot + 1
            /\ word = CellAt(dfBuffer, a)
            /\ activeBlocks[blockId + 1] = last.block

\* C3 (as claimed): a family A slot whose walk stays clear of rwp and whose
\* checksum is accepted yields an entry of ceil(L / 4) words, L the low 16
\* bits of the word at wordIndex * 8, the words being those of the backward
\* walk and the bytes their little-endian concatenation, L = 0 included.
C3_LengthFromHeader ==
  (last.kind = "A" /\ last.status = "ok" /\ last.inBlock = -1) =>
    LET n == CeilDiv4(CellAt(dfBuffer, last.widx * 8).lo)
        e == eepData[last.id]
    IN  /\ last.id \in DOMAIN eepData
        /\ e.length4 = 4 * n
        /\ Len(e.data) = n
        /\ \A j \in 1..Len(e.data) :
             e.data[j] = CellAt(dfBuffer, (last.widx - (j - 1)) * 8)
        /\ e.dataBuf.len = 4 * n
        /\ \A j \in 1..Len(e.data) :
             /\ e.dataBuf.head[4 * j - 3] = e.data[j].lo % 256
             /\ e.dataBuf.head[4 * j - 2] = e.data[j].lo \div 256
             /\ e.dataBuf.head[4 * j - 1] = e.data[j].hi % 256
             /\ e.dataBuf.head[4 * j] = e.data[j].hi \div 256

\* C4: a family A slot whose walk completes is accepted exactly when
\* 0xFFFFFFFF - id - (sum of the accumulated words), modulo 2^32, equals the
\* word at slot offset +0x08; a slot that fails the test leaves the result
\* map unchanged and the walk goes on with the next slot of the block.
C4_ChecksumGate ==
  (last.kind = "A" /\ last.status \in {"ok", "checksum"}) =>
    /\ last.cksRef = CellAt(dfBuffer, last.refAddr + 8)
    /\ (last.status = "ok") <=> (ClosedChecksum(last.id, last.data) = last.cksRef)
    /\ last.status = "ok" =>
         (last.id \in DOMAIN eepData /\ eepData[last.id].data = last.data)
    /\ last.status = "checksum" => (eepData = last.before /\ V850_WalkContinues)

\* A slot of id 1 fails its checksum, id 1 stays absent, and the next slot
\* of the same block is decoded.
C4_Witness ==
  /\ Len(hist) >= 2
  /\ hist[Len(hist) - 1].status = "checksum"
  /\ hist[Len(hist)].status = "ok"
  /\ hist[Len(hist) - 1].bpos = hist[Len(hist)].bpos
  /\ hist[Len(hist) - 1].id \notin DOMAIN eepData
  /\ hist[Len(hist)].id \in DOMAIN eepData

\* C5: when the backward walk of a record of n words meets the rwp of its
\* block after k < n words and the block has a successor in the scan
\* sequence, the record is those k words followed by the n - k words read
\* backward from the last 8-byte word cell of the successor block, and the
\* checksum is verified over all n words.
C5_OverlapSplice ==
  (last.kind = "A" /\ last.inBlock >= 0 /\ last.nextBlock # -1
     /\ last.inBlock < last.fixL) =>
    LET k == last.inBlock
        n == CeilDiv4(CellAt(dfBuffer, last.widx * 8).lo)
        succEnd == (last.nextBlock + 1) * V850_BLOCK_SIZE
    IN  /\ (last.widx - k) * 8 = last.rwp
        /\ \E p \in 1..(Len(activeBlocks) - 1) :
             activeBlocks[p] = last.block /\ activeBlocks[p + 1] = last.nextBlock
        /\ Len(last.data) = n
        /\ \A j \in 1..k : last.data[j] = CellAt(dfBuffer, (last.widx - (j - 1)) * 8)
        /\ \A j \in 1..(n - k) : last.data[k + j] = CellAt(dfBuffer, succEnd - 8 * j)
        /\ last.status \in {"ok", "checksum"}
        /\ (last.status = "ok") <=> (ClosedChecksum(last.id, last.data) = last.cksRef)
        /\ last.status = "ok" =>
             (eepData[last.id].data = last.data /\ eepData[last.id].length4 = 4 * n)

\* One word in the block, two from the end of the successor, accepted.
C5_Witness ==
  /\ last.kind = "A"
  /\ last.status = "ok"
  /\ last.inBlock = 1
  /\ last.fixL = 3
  /\ last.nextBlock = 1
  /\ Len(eepData[last.id].data) = 3

\* The record of the slot just processed, walked down from its word index,
\* reaches the write pointer of its block.
V850_RecordCrossesRwp ==
  /\ last.kind = "A"
  /\ last.status # "range"
  /\ \E ofs \in 0..(Max(last.fixL, 1) - 1) : (last.widx - ofs) * 8 = last.rwp

\* C6: a family A slot whose walk meets rwp in the newest block of the scan
\* sequence throws inside the try, so the result map is unchanged, nothing
\* escapes the constructor on account of the slot, and the walk goes on.
C6_MissingSuccessor ==
  /\ (V850_RecordCrossesRwp /\ last.nextBlock = -1) =>
       /\ last.status = "missing"
       /\ eepData = last.before
  /\ (last.kind = "A" /\ last.status = "missing") =>
       /\ last.nextBlock = -1
       /\ last.block = activeBlocks[Len(activeBlocks)]
       /\ eepData = last.before
       /\ V850_WalkContinues

\* The slot is skipped, its id stays absent, and the next slot is decoded.
C6_Witness ==
  /\ Len(hist) >= 2
  /\ hist[Len(hist) - 1].status = "missing"
  /\ hist[Len(hist)].status = "ok"
  /\ hist[Len(hist) - 1].bpos = hist[Len(hist)].bpos
  /\ hist[Len(hist) - 1].id \notin DOMAIN eepData
  /\ hist[Len(hist)].id \in DOMAIN eepData

\* C9: family A keeps, for every id, the entry of the last slot resolved
\* for it, slots taken by position of the block in the scan sequence and
\* then by ascending slot address; a failed slot changes nothing.
C9_LastSuccessWins ==
  family = "A" =>
    /\ \A k \in 1..(Len(hist) - 1) :
         \/ hist[k].bpos < hist[k + 1].bpos
         \/ (hist[k].bpos = hist[k + 1].bpos /\ hist[k].slot < hist[k + 1].slot)
    /\ \A id \in DOMAIN eepData \cup {hist[k].id : k \in 1..Len(hist)} :
         LET S == {k \in 1..Len(hist) : hist[k].id = id /\ hist[k].status = "ok"}
         IN  IF S = {} THEN id \notin DOMAIN eepData
             ELSE /\ id \in DOMAIN eepData
                  /\ eepData[id] = hist[CHOOSE k \in S : \A m \in S : m <= k].entry

\* Id 1 resolved in an older block, resolved again in a newer block, and
\* then met in a slot that fails: the second entry is the final one.
C9_Witness ==
  /\ pc = "done"
  /\ family = "A"
  /\ Len(hist) = 3
  /\ hist[1].id = 1 /\ hist[2].id = 1 /\ hist[3].id = 1
  /\ hist[1].status = "ok" /\ hist[2].status = "ok" /\ hist[3].status # "ok"
  /\ hist[1].bpos < hist[2].bpos
  /\ hist[1].entry # hist[2].entry
  /\ eepData[1] = hist[2].entry

\* Word j (1-based) of the record that a family B slot of block blk points
\* to with word index widx.
RH850_RecordWord(blk, widx, j) ==
  CellAt(dfBuffer, blk * RH850_BLOCK_SIZE + widx - 4 * (j - 1))

\* Accepted slots of id in the block at scan position bp, in visiting order.
RH850_Hits(id, bp) ==
  {k \in 1..Len(hist) : hist[k].id = id /\ hist[k].bpos = bp /\ hist[k].status = "ok"}

\* C7 (as claimed): when one block holds two accepted slots of the same
\* table id, the entry has exactly lengthWords words, all read from the slot
\* visited first (nearer the write pointer), whose wordIndex and
\* referenceAddress it keeps; the slot visited later modifies nothing.
C7_FirstHitWins ==
  /\ (family = "B" /\ pc = "done" /\ Len(activeBlocks) = 1) =>
       \A id \in DOMAIN eepData :
         Cardinality(RH850_Hits(id, 0)) >= 2 =>
           LET first == hist[CHOOSE k \in RH850_Hits(id, 0) :
                               \A m \in RH850_Hits(id, 0) : k <= m].entry
               e == eepData[id]
               n == CeilDiv4(e.length4)
           IN  /\ Len(e.data) = n
               /\ \A j \in 1..Len(e.data) :
                    e.data[j] = RH850_RecordWord(activeBlocks[1], first.widx, j)
               /\ e.widx = first.widx
               /\ e.addr = first.addr
  /\ (/\ last.kind = "B"
      /\ last.status = "ok"
      /\ \E k \in RH850_Hits(last.id, hist[Len(hist)].bpos) : k < Len(hist)) =>
       eepData = last.before

\* C8 (as claimed): when a table id has an accepted slot in two active
\* blocks, the final entry holds the value read in the block that is later
\* in erase order.
C8_LatestBlockWins ==
  (family = "B" /\ pc = "done") =>
    \A id \in DOMAIN eepData :
      LET bps == {bp \in 0..(Len(activeBlocks) - 1) : RH850_Hits(id, bp) # {}}
          late == CHOOSE bp \in bps : \A o \in bps : o <= bp
          e == eepData[id]
      IN  Cardinality(bps) >= 2 =>
            /\ Len(e.data) = CeilDiv4(e.length4)
            /\ \E k \in RH850_Hits(id, late) :
                 \A j \in 1..Len(e.data) :
                   e.data[j] = RH850_RecordWord(activeBlocks[late + 1],
                                                hist[k].entry.widx, j)

\* C10: when an entry of the id/length table carries an encoded length
\* above 0x800, the constructor throws while loading the table: no block is
\* catalogued, no block is scanned and no instance is returned.
C10_TableLengthChecked ==
  (/\ family = "B"
   /\ pc \notin {"new", "super", "header"}
   /\ dataTable # NoTable
   /\ \E k \in 0..(dataTable.entries - 1) :
        CellAt(cfBuf, dataTable.pointer_rom + 4 * k).hi > RH850_BLOCK_SIZE) =>
    /\ pc = "failed"
    /\ err \in {"Error:table", "RangeError:alloc"}
    /\ blockData = EmptyMap
    /\ activeBlocks = <<>>
    /\ hist = <<>>
    /\ last = NoLast

\* The second entry of the table is the oversized one; the stubs of both
\* entries were stored before the throw.
C10_Witness ==
  /\ pc = "failed"
  /\ err = "Error:table"
  /\ DOMAIN eepData = {16, 17}
  /\ eepData[16].length4 <= RH850_BLOCK_SIZE
  /\ eepData[17].length4 = RH850_BLOCK_SIZE + 1

\* C11 (as claimed): in the final result of either family every entry with a
\* payload has as many words as its lengthWords, a byte buffer of
\* lengthWords * 4 bytes, and bytes 4j..4j+3 that are the little-endian
\* encoding of word j.
C11_PayloadShape ==
  pc = "done" =>
    \A id \in DOMAIN eepData :
      LET e == eepData[id]
      IN  e.data # <<>> =>
            /\ 4 * Len(e.data) = e.length4
            /\ e.dataBuf.len = e.length4
            /\ e.dataBuf.head = WordsToBytes(e.data)

\* C12 (as claimed): once an id holds a payload, its lengthWords is the same
\* in every later state of the scan, in both families.
C12_LengthFixed ==
  [][\A id \in DOMAIN eepData :
       eepData[id].data # <<>> =>
         /\ id \in DOMAIN eepData'
         /\ eepData'[id].length4 = eepData[id].length4]_vars

\* C12 (amended): an entry is never removed; in family B the lengthWords of
\* an id never changes from the value its table stub was given; in family A
\* every successfully resolved slot sets the lengthWords of its id to the
\* word count of its own record (the length held by the word read at
\* wordIndex * 8, at least one word), and the lengthWords of every other id
\* stays as it was.
C12_LengthFollowsLastSlot ==
  [][/\ \A id \in DOMAIN eepData :
          /\ id \in DOMAIN eepData'
          /\ family = "B" => eepData'[id].length4 = eepData[id].length4
          /\ (family = "A" /\ ~(last'.status = "ok" /\ last'.id = id)) =>
               eepData'[id].length4 = eepData[id].length4
     /\ (family = "A" /\ last' # last /\ last'.status = "ok") =>
          /\ last'.id \in DOMAIN eepData'
          /\ eepData'[last'.id].length4
               = 4 * Max(1, CeilDiv4(readUint32(dfBuffer, 0, dfBuffer.len,
                                                last'.widx * 8).w.lo))]_vars

\* A later slot of an id already resolved declares another length and the
\* entry takes it.
C12_Witness ==
  /\ last.kind = "A"
  /\ last.status = "ok"
  /\ last.id \in DOMAIN last.before
  /\ last.before[last.id].length4 # eepData[last.id].length4

\* Ids the external table declares: the low half of each of its words.
RH850_TableIds ==
  {CellAt(cfBuf, dataTable.pointer_rom + 4 * k).lo : k \in 0..(dataTable.entries - 1)}

\* C13: in family B, once the table is loaded and until the scan has ended,
\* the ids of the result map are exactly the ids the table declares; a
\* descriptor slot of the block whose id the table does not declare changes
\* no entry and raises no error.
C13_IdsFromTable ==
  /\ (family = "B" /\ pc \in {"table", "catalog", "scan", "slot", "done"}) =>
       DOMAIN eepData = RH850_TableIds
  /\ (last.kind = "B" /\ last.slot <= RH850_BLOCK_SIZE - 4
        /\ last.id \notin RH850_TableIds) =>
       /\ last.status = "skip"
       /\ eepData = last.before
       /\ pc # "failed"

\* The scan has ended after a slot with valid guards and a word index inside
\* the block whose id, 0x11, the table does not declare.
C13_Witness ==
  /\ pc = "done"
  /\ last.kind = "B"
  /\ last.id = 17
  /\ 17 \notin RH850_TableIds
  /\ \A g \in {4, 8, 12} : CellAt(dfBuffer, last.refAddr - g) = ACTIVE_FLAG
  /\ last.widx < RH850_BLOCK_SIZE
  /\ \E k \in 1..Len(hist) : hist[k].status = "ok"

\* Byte address of the read number ofs (0-based) of the backward walk of the
\* slot just processed.
V850_WalkAddr(ofs) == (last.widx - ofs) * 8

V850_OutsideImage(a) == a < 0 \/ a + 4 > dfBuffer.len

\* The resolution of the slot just processed reads, or would read, a word
\* outside the image: the first read at wordIndex * 8, or a read of the walk
\* that no meeting with rwp precedes.
V850_ReadsOutside ==
  /\ last.kind = "A"
  /\ \/ V850_OutsideImage(V850_WalkAddr(0))
     \/ \E ofs \in 0..(Max(last.fixL, 1) - 1) :
          /\ V850_OutsideImage(V850_WalkAddr(ofs))
          /\ \A o \in 0..ofs : V850_WalkAddr(o) # last.rwp

\* C14 (as claimed): a family A slot whose record resolution would read a
\* word outside [0, length), above the end or below address 0, is a
\* resolution error: the result map is unchanged and the reference walk
\* continues with the next slot.
C14_OutsideIsError ==
  V850_ReadsOutside =>
    /\ last.status # "ok"
    /\ eepData = last.before
    /\ V850_WalkContinues

\* The rwp address the header of block j encodes, as getBlocksData decodes
\* it: the three bytes at 0x30, doubled (family A), or at 0x14 (family B).
HeaderRwpOf(j) ==
  LET base == j * BlockSizeOf(family)
      w == CellAt(dfBuffer, base + (IF family = "A" THEN 48 ELSE 20))
      v == (w.hi % 256) * 65536 + w.lo
  IN  IF family = "A" THEN 2 * v ELSE v

\* Addresses inside the window of block k that headers of valid blocks encode.
RwpsInto(k) ==
  {HeaderRwpOf(j) : j \in {b \in DOMAIN blockData : blockData[b].isValid}}
    \cap (k * BlockSizeOf(family))..((k + 1) * BlockSizeOf(family) - 1)

V850_LastValid ==
  CHOOSE j \in DOMAIN blockData :
    blockData[j].isValid /\ \A m \in DOMAIN blockData : blockData[m].isValid => m <= j

\* C17: decoder A, once the catalog is built: the eraseCount of every block
\* is the whole 32-bit little-endian word at in-block offset 0x28, and the
\* rwp handed out from a valid block's header is twice the whole 32-bit
\* little-endian word at in-block offset 0x30 (seen on the last valid block,
\* whose rwp no later header replaces).
C17_FullWidthFields ==
  (pc = "catalog" /\ family = "A") =>
    /\ \A k \in DOMAIN blockData :
         W(blockData[k].eraseCount \div 65536, blockData[k].eraseCount % 65536)
           = CellAt(dfBuffer, k * V850_BLOCK_SIZE + 40)
    /\ (\E j \in DOMAIN blockData : blockData[j].isValid) =>
         LET a == 2 * WordToInt(CellAt(dfBuffer, V850_LastValid * V850_BLOCK_SIZE + 48))
         IN  /\ a \div V850_BLOCK_SIZE \in DOMAIN blockData
             /\ blockData[a \div V850_BLOCK_SIZE].rwp = a

(***************************************************************************)
(* C18                                                                     *)
(***************************************************************************)
\* C18: decoder A: no reference slot whose image-absolute address is at or
\* past the known (non-zero) rwp of its block has been resolved, the first
\* slot at 0x40 included, and no slot holding the end marker 0xFFFFFFFF is
\* ever up for resolution.
C18_NoSlotPastRwp ==
  /\ (pc = "slot" /\ family = "A") => word # REF_END_FLAG
  /\ (last.kind = "A" /\ last.rwp # 0 /\ last.refAddr >= last.rwp) =>
       eepData = last.before

(***************************************************************************)
(* C19                                                                     *)
(***************************************************************************)
\* The rwp of block k was registered from the header of a valid block.
HeaderRegistered(k) == ~(RwpsInto(k) \subseteq {0})

\* C19: decoder B: in a block at any index whose rwp was registered from a
\* header, every descriptor slot the backward walk examines lies at an
\* image-absolute address rwp - 4 - 0x10 * n inside that block's own
\* 0x800-byte window, and the walk raises no range error.
C19_HeaderRwpWalk ==
  (family = "B" /\ last.kind = "B" /\ HeaderRegistered(last.block)) =>
    LET rwp == blockData[last.block].rwp
        at == last.refAddr
    IN  /\ last.status # "range"
        /\ at <= rwp - 4
        /\ (rwp - 4 - at) % 16 = 0
        /\ at \div RH850_BLOCK_SIZE = last.block

(***************************************************************************)
(* C20                                                                     *)
(***************************************************************************)
\* The three guard words before the descriptor slot just examined are all
\* 0x55555555 and the high 16 bits of its reference word, unsigned, are
\* below the block size.
RH850_SlotAccepted ==
  LET at == last.block * RH850_BLOCK_SIZE + last.slot
  IN  /\ CellAt(dfBuffer, at - 4) = ACTIVE_FLAG
      /\ CellAt(dfBuffer, at - 8) = ACTIVE_FLAG
      /\ CellAt(dfBuffer, at - 12) = ACTIVE_FLAG
      /\ CellAt(dfBuffer, at).hi < RH850_BLOCK_SIZE

\* C20: decoder B: a descriptor slot of the block window that the walk has
\* examined and whose guard words are not all 0x55555555, or whose
\* wordIndex (unsigned high 16 bits of the reference word) is not below
\* 0x800, left the result map as it was, raised no exception, and the walk
\* went on to the next slot.
C20_SlotGate ==
  (family = "B" /\ last.kind = "B" /\ last.slot \in 36..(RH850_BLOCK_SIZE - 4)
     /\ ~RH850_SlotAccepted) =>
    /\ eepData = last.before
    /\ last.status = "skip"
    /\ pc # "failed"
    /\ i = last.slot - 16

(***************************************************************************)
(* C21                                                                     *)
(***************************************************************************)
\* C21: decoder B: just after findActiveRwp has recovered the rwp of a block
\* whose rwp was unknown (0), every entry of the record map has the words,
\* bytes, wordIndex and referenceAddress it had just before the recovery.
C21_ProbeReadOnly ==
  (family = "B" /\ last.kind = "probe" /\ last.rwp = 0) =>
    /\ DOMAIN eepData = DOMAIN last.before
    /\ \A id \in DOMAIN last.before :
         /\ eepData[id].data = last.before[id].data
         /\ eepData[id].dataBuf = last.before[id].dataBuf
         /\ eepData[id].widx = last.before[id].widx
         /\ eepData[id].addr = last.before[id].addr

(***************************************************************************)
(* C22                                                                     *)
(***************************************************************************)
\* C22: decoder A: while and after the reference table of an active block is
\* walked, the slot read last (slot i, at in-block offset 0x10 * i) lies
\* below the block size 0x1000 and no exception has ended the walk, also in
\* a block without end marker and without recorded rwp.
C22_WalkStaysInBlock ==
  (family = "A" /\ last.kind = "A") =>
    /\ i * 16 < V850_BLOCK_SIZE
    /\ pc # "failed"

(***************************************************************************)
(* C23                                                                     *)
(***************************************************************************)
\* C23: for an image of valid geometry, in either family, getBlocksData
\* ends without error, whatever the headers hold, and the catalog it
\* returns has exactly the keys 0..nBlocks-1.
C23_CatalogBuilt ==
  /\ ~(pc = "failed" /\ err = "TypeError:rwp")
  /\ pc \in {"catalog", "scan", "slot", "done"} =>
       DOMAIN blockData = 0..(nBlocks - 1)

====
